---- MODULE Spec2Model ----
(***************************************************************************)
(* Capital-flow accounting engine of the trading dashboard                 *)
(* (src/models.py, class TradingDataManager), with the accounts and        *)
(* sessions of src/auth.py (class AuthManager) and the monthly table of    *)
(* the strategy analysis page (src/app.py).                                *)
(*                                                                         *)
(* Representation of numbers.  The program computes with binary floats;    *)
(* the model computes with integers:                                       *)
(*   - stored amounts (starting_capital, movement amount, prices,          *)
(*     total_capital, profit_loss) are whole dollars;                      *)
(*   - rates (tax_rate, trader_share, investor_share) are whole percent,   *)
(*     so the program's 0.25 is 25 and its "1 - x" is "100 - x";           *)
(*   - Return_Pct, which the program rounds to two decimals, is an         *)
(*     integer number of hundredths of a percent (10.00 % is 1000);        *)
(*   - the running capital of the reconciliation walk is kept in units of  *)
(*     1/10000 dollar, every product being rounded to that unit;           *)
(*   - fields the program rounds with round(x, 2) are integer cents.       *)
(*                                                                         *)
(* Calendar.  A date is a day number, day 1 being a Sunday and the first   *)
(* day of a month; months have 30 days, weeks run Monday to Sunday.        *)
(***************************************************************************)
EXTENDS Integers, Sequences, FiniteSets, TLC

VARIABLES
    config,            \* self.config: global section and per-client sections
    trades,            \* self.trades_df: sequence of trade rows
    clients,           \* self.clients_df: client_id -> row
    movements,         \* self.capital_movements_df: sequence of movement rows
    monthly_capital,   \* self.monthly_capital_df: sequence of override rows
    users,             \* data/users.json (AuthManager.users): username -> record
    sessions,          \* data/sessions.json (AuthManager.sessions): id -> record
    issued,            \* number of session ids generated so far
    now,               \* datetime.now(), in hours
    result             \* value returned by the operation that ran last

vars == <<config, trades, clients, movements, monthly_capital, users, sessions, issued, now, result>>

store == <<config, trades, clients, movements, monthly_capital>>

auth == <<users, sessions, issued, now>>

(***************************************************************************)
(* Bounds of the model.                                                    *)
(***************************************************************************)
MaxMovements == 2

MaxRows == 2

MaxTrades == 3

MaxOverrides == 2

\* hours the clock runs
MaxClock == 36

\* session ids generated
MaxSessions == 2

(***************************************************************************)
(* Values standing for Python's None / NaN and for the absence of a call.  *)
(***************************************************************************)
\* None (or NaN) where a number or a date is expected
None == 0 - 1

\* None where a client_id is expected
NoClient == "None"

Idle == [kind |-> "idle"]

ClientIds == {"c1", "c2"}

(***************************************************************************)
(* Arithmetic helpers.                                                     *)
(***************************************************************************)

\* x / d rounded to the nearest integer, ties to the even neighbour (d > 0)
RoundDiv(x, d) ==
    LET q == x \div d
        r == x % d
    IN  IF 2 * r < d THEN q
        ELSE IF 2 * r > d THEN q + 1
        ELSE IF q % 2 = 0 THEN q ELSE q + 1

\* a * n / d rounded to the nearest integer, computed without forming a * n
MulDiv(a, n, d) ==
    LET q == a \div d
        r == a % d
    IN  q * n + RoundDiv(r * n, d)

\* round(x, 2): units of 1/10000 dollar to cents
Round2(x) == RoundDiv(x, 100)

\* whole dollars to units of 1/10000 dollar
Units(dollars) == dollars * 10000

Min(S) == CHOOSE x \in S : \A y \in S : x <= y

RECURSIVE SortedSeq_Descending(_)
\* the elements of a finite set of integers in descending order
SortedSeq_Descending(S) ==
    IF S = {} THEN <<>>
    ELSE LET m == Min(S) IN SortedSeq_Descending(S \ {m}) \o <<m>>

RECURSIVE SortedSeq(_)
\* the elements of a finite set of integers in ascending order
SortedSeq(S) ==
    IF S = {} THEN <<>>
    ELSE LET m == Min(S) IN <<m>> \o SortedSeq(S \ {m})

RECURSIVE SumAmount(_)
\* df['amount'].sum()
SumAmount(rows) ==
    IF rows = <<>> THEN 0 ELSE Head(rows).amount + SumAmount(Tail(rows))

RECURSIVE SumPL(_)
\* df['profit_loss'].sum()
SumPL(rows) ==
    IF rows = <<>> THEN 0 ELSE Head(rows).profit_loss + SumPL(Tail(rows))

RECURSIVE SumField(_, _)
\* sum([period[f] for period in breakdown])
SumField(recs, f) ==
    IF recs = <<>> THEN 0 ELSE Head(recs)[f] + SumField(Tail(recs), f)

Range(s) == {s[i] : i \in DOMAIN s}

(***************************************************************************)
(* Calendar and pandas periods.  A Period is a frequency and an ordinal.   *)
(* dt.to_period('2W') gives the frequency 2W-SUN and the ordinal of the    *)
(* calendar week that contains the date, so the "biweekly" buckets are     *)
(* calendar weeks.  str() of a weekly period prints the week               *)
(* "start/end" without the multiple, and pd.Period(text) of such a text    *)
(* is a period of frequency W-SUN.  Periods of different frequencies       *)
(* compare unequal under ==.                                               *)
(***************************************************************************)
MonthOf(d) == (d - 1) \div 30

WeekOf(d) == (d + 5) \div 7

\* first day of a month, as stored by set_monthly_capital
MonthStart(m) == m * 30 + 1

\* first day (Monday) of a week
WeekStart(w) == w * 7 - 5

\* date.to_period(freq)
to_period(d, freq) ==
    IF freq = "M" THEN [freq |-> "M", ordinal |-> MonthOf(d)]
    ELSE [freq |-> freq, ordinal |-> WeekOf(d)]

\* str(period): "2025-06" for a month, "2025-06-23/2025-06-29" for a week
PeriodStr(p) ==
    IF p.freq = "M" THEN [text |-> "month", first |-> MonthStart(p.ordinal)]
    ELSE [text |-> "week", first |-> WeekStart(p.ordinal)]

\* pd.Period(period_str)
ParsePeriod(str) ==
    IF str.text = "month" THEN [freq |-> "M", ordinal |-> MonthOf(str.first)]
    ELSE [freq |-> "W-SUN", ordinal |-> WeekOf(str.first)]

\* pd.to_datetime(period_str.split('/')[0]).to_period('2W')
BiweekOfStr(str) == to_period(str.first, "2W-SUN")

(***************************************************************************)
(* Configuration resolver.                                                 *)
(***************************************************************************)
DefaultConfig ==
    [global |-> [tax_rate |-> 25, trader_share |-> 40, investor_share |-> 60,
                 auto_remove_day_trades |-> TRUE],
     clients |-> << >>]

\* the section update_config creates for a client that has none
HardDefaults == [tax_rate |-> 25, trader_share |-> 40, investor_share |-> 60]

get_config_in(cfg, client_id) ==
    IF client_id = NoClient
    THEN cfg.global
    ELSE LET client_config ==
                 IF client_id \in DOMAIN cfg.clients
                 THEN cfg.clients[client_id] ELSE << >>
             field(f) == IF f \in DOMAIN client_config
                         THEN client_config[f] ELSE cfg.global[f]
         IN  [tax_rate |-> field("tax_rate"),
              trader_share |-> field("trader_share"),
              investor_share |-> field("investor_share"),
              auto_remove_day_trades |-> cfg.global.auto_remove_day_trades]

get_config(client_id) == get_config_in(config, client_id)

(***************************************************************************)
(* Period-capital resolver.                                                *)
(***************************************************************************)
\* self.clients_df['starting_capital'].sum()
TotalStartingCapital ==
    LET RECURSIVE Sum(_)
        Sum(S) == IF S = {} THEN 0
                  ELSE LET c == CHOOSE x \in S : TRUE
                       IN  clients[c].starting_capital + Sum(S \ {c})
    IN  Sum(DOMAIN clients)

NetOf(rows) ==
    SumAmount(SelectSeq(rows, LAMBDA r : r.type = "contribution"))
    - SumAmount(SelectSeq(rows, LAMBDA r : r.type = "withdrawal"))

\* the default with the movements of every date
DefaultCapital_EveryDate(p) == TotalStartingCapital + NetOf(movements)

\* default denominator: all clients' starting capital plus the net of the
\* movements whose period (of frequency freq) is not after period p
DefaultCapital(p) ==
    TotalStartingCapital
    + NetOf(SelectSeq(movements,
                      LAMBDA r : to_period(r.date, p.freq).ordinal <= p.ordinal))

\* override rows whose month value falls in period p
OverridesIn(p) ==
    SelectSeq(monthly_capital, LAMBDA r : to_period(r.month, p.freq) = p)

\* the default returned whether or not the month has an override
get_monthly_capital_DefaultOnly(month) == DefaultCapital(ParsePeriod(month))

get_monthly_capital(month) ==
    LET month_period == ParsePeriod(month)
        month_capital == OverridesIn(month_period)
    IN  IF month_capital # <<>> THEN month_capital[1].total_capital
        ELSE DefaultCapital(month_period)

get_biweekly_capital(period) ==
    LET period_period == BiweekOfStr(period)
        period_capital == OverridesIn(period_period)
    IN  IF period_capital # <<>> THEN period_capital[1].total_capital
        ELSE DefaultCapital(period_period)

(***************************************************************************)
(* Period aggregator.                                                      *)
(***************************************************************************)
\* the division result left in place for a zero denominator, the quotient
\* being taken as the P&L itself
ReturnPct_NotReplaced(total_pl, capital) ==
    IF capital = 0 THEN total_pl
    ELSE IF capital > 0 THEN RoundDiv(total_pl * 10000, capital)
    ELSE RoundDiv((0 - total_pl) * 10000, 0 - capital)

\* (Total_PL / Client_Capital * 100).round(2), NaN and +-inf replaced by 0;
\* the result is in hundredths of a percent
ReturnPct(total_pl, capital) ==
    IF capital = 0 THEN 0
    ELSE IF capital > 0 THEN RoundDiv(total_pl * 10000, capital)
    ELSE RoundDiv((0 - total_pl) * 10000, 0 - capital)

\* every trade kept, whatever the client's investment_start_date
FilteredTrades_Unfiltered(client_id) == trades

\* the trades the aggregator keeps for client_id (sell_date on or after the
\* client's investment_start_date, when the client has one)
FilteredTrades(client_id) ==
    IF client_id # NoClient /\ client_id \in DOMAIN clients
       /\ clients[client_id].investment_start_date # None
    THEN SelectSeq(trades,
             LAMBDA t : t.sell_date >= clients[client_id].investment_start_date)
    ELSE trades

\* (sell_price - buy_price) / buy_price * 100 of a trade, in hundredths of a
\* percent
TradePct(t) == RoundDiv((t.sell_price - t.buy_price) * 10000, t.buy_price)

RECURSIVE SumPct(_)
SumPct(rows) ==
    IF rows = <<>> THEN 0 ELSE TradePct(Head(rows)) + SumPct(Tail(rows))

\* round(mean of the return-% of the rows, 2), 0 when there is no row
MeanPct(rows) == IF rows = <<>> THEN 0 ELSE RoundDiv(SumPct(rows), Len(rows))

\* the average return-% of the rows of trades_df sold in the period with the
\* given outcome
AvgPct(trades_df, period, outcome) ==
    MeanPct(SelectSeq(trades_df,
                LAMBDA t : /\ to_period(t.sell_date, period.freq) = period
                           /\ t.win_loss = outcome))

\* get_avg_win_pct, get_avg_loss_pct and their biweekly forms: the average
\* is taken over self.trades_df
get_avg_pct(period, outcome) == AvgPct(trades, period, outcome)

RECURSIVE cumsum(_, _)
\* the rows with their Cumulative_Return, Return_Pct.cumsum(); running is the
\* sum over the rows before
cumsum(rows, running) ==
    IF rows = <<>> THEN <<>>
    ELSE LET r == Head(rows)
             cumulative == running + r.Return_Pct
         IN  <<[Period |-> r.Period,
                Total_PL |-> r.Total_PL,
                Total_Trades |-> r.Total_Trades,
                Winning_Trades |-> r.Winning_Trades,
                Win_Rate |-> r.Win_Rate,
                Client_Capital |-> r.Client_Capital,
                Return_Pct |-> r.Return_Pct,
                Avg_Win_Pct |-> r.Avg_Win_Pct,
                Avg_Loss_Pct |-> r.Avg_Loss_Pct,
                Cumulative_Return |-> cumulative]>>
             \o cumsum(Tail(rows), cumulative)

\* one record per non-empty period of frequency freq, in ascending order
StrategyReturns(client_id, freq) ==
    LET trades_df == FilteredTrades(client_id)
        ordinals == SortedSeq({to_period(t.sell_date, freq).ordinal :
                               t \in Range(trades_df)})
        stats(o) ==
            LET p    == [freq |-> freq, ordinal |-> o]
                rows == SelectSeq(trades_df,
                            LAMBDA t : to_period(t.sell_date, freq) = p)
                cap  == IF freq = "M" THEN get_monthly_capital(PeriodStr(p))
                        ELSE get_biweekly_capital(PeriodStr(p))
            IN  [Period |-> PeriodStr(p),
                 Total_PL |-> SumPL(rows),
                 Total_Trades |-> Len(rows),
                 Winning_Trades |->
                     Len(SelectSeq(rows, LAMBDA t : t.win_loss = "Win")),
                 Win_Rate |->
                     RoundDiv(Len(SelectSeq(rows, LAMBDA t : t.win_loss = "Win"))
                              * 10000, Len(rows)),
                 Client_Capital |-> cap,
                 Return_Pct |-> ReturnPct(SumPL(rows), cap),
                 Avg_Win_Pct |-> get_avg_pct(p, "Win"),
                 Avg_Loss_Pct |-> get_avg_pct(p, "Loss")]
    IN  cumsum([i \in 1..Len(ordinals) |-> stats(ordinals[i])], 0)

get_monthly_strategy_returns(client_id) == StrategyReturns(client_id, "M")

get_biweekly_strategy_returns(client_id) == StrategyReturns(client_id, "2W-SUN")

\* the dictionary get_strategy_summary returns ({} when the client has no
\* trade); the cumulative return is read from the monthly aggregate computed
\* without a client_id
get_strategy_summary(client_id) ==
    LET trades_df == FilteredTrades(client_id)
        monthly_returns == get_monthly_strategy_returns(NoClient)
    IN  IF trades_df = <<>> THEN [empty |-> TRUE]
        ELSE [empty |-> FALSE,
              total_trades |-> Len(trades_df),
              winning_trades |->
                  Len(SelectSeq(trades_df, LAMBDA t : t.win_loss = "Win")),
              total_pl |-> SumPL(trades_df),
              cumulative_return |->
                  IF monthly_returns # <<>>
                  THEN monthly_returns[Len(monthly_returns)].Cumulative_Return
                  ELSE 0]

(***************************************************************************)
(* Capital reconciliation engine.                                          *)
(***************************************************************************)
\* period_starting_capital, had it been read after the contributions were
\* added
PeriodStartingCapital_AfterContributions(current_capital, net_contributions) ==
    current_capital + net_contributions

\* period_starting_capital = current_capital, read before the contributions
\* are added
PeriodStartingCapital(current_capital, net_contributions) == current_capital

\* the tax itself in place of the profit after tax
ProfitAfterTax_TaxPart(period_return_amount, cfg) ==
    MulDiv(period_return_amount, cfg.tax_rate, 100)

\* period_return_amount * (1 - client_config['tax_rate'])
ProfitAfterTax(period_return_amount, cfg) ==
    MulDiv(period_return_amount, 100 - cfg.tax_rate, 100)

\* the trader's share computed with the investor's rate
TraderShare_InvestorRate(profit_after_tax, cfg) ==
    MulDiv(profit_after_tax, cfg.investor_share, 100)

\* profit_after_tax * client_config['trader_share']
TraderShare(profit_after_tax, cfg) ==
    MulDiv(profit_after_tax, cfg.trader_share, 100)

\* profit_after_tax * client_config['investor_share']
InvestorShare(profit_after_tax, cfg) ==
    MulDiv(profit_after_tax, cfg.investor_share, 100)

\* both shares added to the carried capital
EndingCapital_BothShares(after, investor_share, trader_share) ==
    after + investor_share + trader_share

\* current_capital += investor_share
EndingCapital(after, investor_share, trader_share) == after + investor_share

\* one iteration of the period loop: current_capital is the capital carried
\* in (units of 1/10000 dollar), contributions and withdrawals the client's
\* movements of the period (same units), return_pct the period's Return_Pct,
\* cfg the client's configuration
WalkStep(current_capital, contributions, withdrawals, return_pct, cfg) ==
    LET net_contributions == contributions - withdrawals
        start == PeriodStartingCapital(current_capital, net_contributions)
        after == current_capital + net_contributions
        period_return_amount == MulDiv(after, return_pct, 10000)
        profit_after_tax == ProfitAfterTax(period_return_amount, cfg)
        investor_share == InvestorShare(profit_after_tax, cfg)
        trader_share == TraderShare(profit_after_tax, cfg)
    IN  [start |-> start,
         contributions |-> contributions,
         withdrawals |-> withdrawals,
         net_contributions |-> net_contributions,
         after |-> after,
         return_pct |-> return_pct,
         profit_after_tax |-> profit_after_tax,
         investor_share |-> investor_share,
         trader_share |-> trader_share,
         ending |-> EndingCapital(after, investor_share, trader_share)]

\* the dictionary appended to the breakdown: amounts rounded to cents
BreakdownRecord(period, step) ==
    [period |-> period,
     starting_capital |-> Round2(step.start),
     contributions |-> Round2(step.contributions),
     withdrawals |-> Round2(step.withdrawals),
     net_contributions |-> Round2(step.net_contributions),
     capital_after_contributions |-> Round2(step.start + step.net_contributions),
     return_pct |-> step.return_pct,
     profit_after_tax |-> Round2(step.profit_after_tax),
     investor_share |-> Round2(step.investor_share),
     trader_share |-> Round2(step.trader_share),
     ending_capital |-> Round2(step.ending)]

\* the client's movements of one type whose period, taken at frequency freq,
\* equals (==) the period parsed from the label of the returns row
PeriodMovements(client_id, freq, period_str, type) ==
    SelectSeq(movements,
        LAMBDA r : /\ r.client_id = client_id
                   /\ r.type = type
                   /\ to_period(r.date, freq) = ParsePeriod(period_str))

RECURSIVE Walk(_, _, _, _)
\* the period loop over the rows of returns, from the carried capital
\* current_capital; gives the sequence of the iterations' values
Walk(client_id, freq, returns, current_capital) ==
    IF returns = <<>> THEN <<>>
    ELSE LET period_data == Head(returns)
             step == WalkStep(current_capital,
                         Units(SumAmount(PeriodMovements(client_id, freq,
                                   period_data.Period, "contribution"))),
                         Units(SumAmount(PeriodMovements(client_id, freq,
                                   period_data.Period, "withdrawal"))),
                         period_data.Return_Pct,
                         get_config(client_id))
         IN  <<step>> \o Walk(client_id, freq, Tail(returns), step.ending)

ClientMovements(client_id) ==
    SelectSeq(movements, LAMBDA r : r.client_id = client_id)

TotalContributions(client_id) ==
    SumAmount(SelectSeq(ClientMovements(client_id),
                        LAMBDA r : r.type = "contribution"))

TotalWithdrawals(client_id) ==
    SumAmount(SelectSeq(ClientMovements(client_id),
                        LAMBDA r : r.type = "withdrawal"))

\* the capital the biweekly loop starts from
BiweeklyInitialCapital(client_id) ==
    Units(clients[client_id].starting_capital
          + TotalContributions(client_id) - TotalWithdrawals(client_id))

\* the capital the monthly loop starts from
MonthlyInitialCapital(client_id) ==
    Units(clients[client_id].starting_capital)

BiweeklyWalk(client_id) ==
    Walk(client_id, "2W-SUN", get_biweekly_strategy_returns(client_id),
         BiweeklyInitialCapital(client_id))

MonthlyWalk(client_id) ==
    Walk(client_id, "M", get_monthly_strategy_returns(client_id),
         MonthlyInitialCapital(client_id))

Breakdown(returns, walk) ==
    [i \in 1..Len(walk) |-> BreakdownRecord(returns[i].Period, walk[i])]

\* total_returns left as the sum over the biweekly breakdown
TerminalFigures_BiweeklyReturns(monthly_breakdown, biweekly_breakdown) ==
    [current_capital |->
         IF monthly_breakdown # <<>>
         THEN monthly_breakdown[Len(monthly_breakdown)].ending_capital
         ELSE biweekly_breakdown[Len(biweekly_breakdown)].ending_capital,
     total_returns |-> SumField(biweekly_breakdown, "profit_after_tax")]

\* the figures returned when at least one period exists: the capital and the
\* returns of the monthly breakdown when it is not empty, else of the biweekly
TerminalFigures(monthly_breakdown, biweekly_breakdown) ==
    IF monthly_breakdown # <<>>
    THEN [current_capital |->
              monthly_breakdown[Len(monthly_breakdown)].ending_capital,
          total_returns |-> SumField(monthly_breakdown, "profit_after_tax")]
    ELSE [current_capital |->
              biweekly_breakdown[Len(biweekly_breakdown)].ending_capital,
          total_returns |-> SumField(biweekly_breakdown, "profit_after_tax")]

\* an empty flow in place of None
NotFound_EmptyFlow(client_id) ==
    [kind |-> "flow", client_id |-> client_id,
     value |-> [starting_capital |-> 0, current_capital |-> 0,
                total_contributions |-> 0, total_withdrawals |-> 0,
                total_returns |-> 0,
                monthly_breakdown |-> <<>>, biweekly_breakdown |-> <<>>]]

\* if client_info.empty: return None
NotFound(client_id) == [kind |-> "none", client_id |-> client_id]

\* the value get_client_capital_flow(client_id) returns; money fields of the
\* result are in cents
get_client_capital_flow(client_id) ==
    IF client_id \notin DOMAIN clients
    THEN NotFound(client_id)
    ELSE
    LET starting_capital == clients[client_id].starting_capital
        total_contributions == TotalContributions(client_id)
        total_withdrawals == TotalWithdrawals(client_id)
        base_capital == starting_capital + total_contributions - total_withdrawals
        biweekly_returns == get_biweekly_strategy_returns(client_id)
        monthly_returns == get_monthly_strategy_returns(client_id)
        biweekly_breakdown == Breakdown(biweekly_returns, BiweeklyWalk(client_id))
        monthly_breakdown == Breakdown(monthly_returns, MonthlyWalk(client_id))
        terminal == TerminalFigures(monthly_breakdown, biweekly_breakdown)
    IN  IF biweekly_returns = <<>>
        THEN [kind |-> "flow", client_id |-> client_id,
              value |-> [starting_capital |-> starting_capital * 100,
                         current_capital |-> base_capital * 100,
                         total_contributions |-> total_contributions * 100,
                         total_withdrawals |-> total_withdrawals * 100,
                         total_returns |-> 0,
                         monthly_breakdown |-> <<>>,
                         biweekly_breakdown |-> <<>>]]
        ELSE [kind |-> "flow", client_id |-> client_id,
              value |-> [starting_capital |-> starting_capital * 100,
                         current_capital |-> terminal.current_capital,
                         total_contributions |-> total_contributions * 100,
                         total_withdrawals |-> total_withdrawals * 100,
                         total_returns |-> terminal.total_returns,
                         monthly_breakdown |-> monthly_breakdown,
                         biweekly_breakdown |-> biweekly_breakdown]]

(***************************************************************************)
(* Trade import.                                                           *)
(***************************************************************************)
\* _normalize(name): lower case, alphanumeric characters only
Normalize(name) ==
    CASE name \in {"Buy Date", "buy_date"} -> "buydate"
      [] name \in {"Sell Date", "sell_date"} -> "selldate"
      [] name \in {"Stock", "stock"} -> "stock"
      [] name \in {"Buy Price", "buy_price"} -> "buyprice"
      [] name \in {"Sell Price", "sell_price"} -> "sellprice"
      [] name \in {"Quantity", "quantity"} -> "quantity"
      [] name = "Qty" -> "qty"
      [] OTHER -> name

\* the column name after df.rename(columns=header_map)
RenamedColumn(c) ==
    LET key == Normalize(c)
    IN  CASE key = "buydate" -> "buy_date"
          [] key = "selldate" -> "sell_date"
          [] key = "stock" -> "stock"
          [] key = "buyprice" -> "buy_price"
          [] key = "sellprice" -> "sell_price"
          [] key = "quantity" -> "quantity"
          [] OTHER -> c

required_columns ==
    <<"buy_date", "sell_date", "stock", "buy_price", "sell_price", "quantity">>

\* required columns absent from the header as it was read, without renaming
MissingColumns_NoRename(columns) ==
    SelectSeq(required_columns, LAMBDA col : col \notin Range(columns))

\* required columns absent from the renamed header, in the order of the list
MissingColumns(columns) ==
    SelectSeq(required_columns,
              LAMBDA col : col \notin {RenamedColumn(c) : c \in Range(columns)})

\* str of a cell of a numeric column: "100" in an int64 column, "100.0" in
\* a float64 column
astype_str(value, dtype) == [digits |-> value, point |-> dtype = "float64"]

\* the text compared by the duplicate check; t.dtypes are the dtypes of the
\* numeric columns of the frame the row is in (the same in all its rows)
trade_signature(t) ==
    <<t.buy_date, t.sell_date, t.stock,
      astype_str(t.buy_price, t.dtypes.buy_price),
      astype_str(t.sell_price, t.dtypes.sell_price),
      astype_str(t.quantity, t.dtypes.quantity)>>

\* the client_id of a trade read from a file without a client_id column
NaN == "nan"

\* row i of the file with its derived fields and its trade_id; a column of
\* the file that is not one of the required ones is kept as it is
ProcessedRow(file, i) ==
    LET r == file.rows[i]
        profit_loss == (r.sell_price - r.buy_price) * r.quantity
    IN  [trade_id |-> i,
         buy_date |-> r.buy_date, sell_date |-> r.sell_date,
         stock |-> r.stock, buy_price |-> r.buy_price,
         sell_price |-> r.sell_price, quantity |-> r.quantity,
         profit_loss |-> profit_loss,
         position_size |-> r.buy_price * r.quantity,
         win_loss |-> IF profit_loss > 0 THEN "Win" ELSE "Loss",
         client_id |-> IF "client_id" \in Range(file.columns)
                       THEN r.client_id ELSE NaN,
         dtypes |-> file.dtypes]

RECURSIVE DropDuplicates(_, _)
\* df.drop_duplicates(subset=['trade_signature'], keep='first'); seen is the
\* set of the signatures of the rows already kept
DropDuplicates(df, seen) ==
    IF df = <<>> THEN <<>>
    ELSE IF trade_signature(Head(df)) \in seen
         THEN DropDuplicates(Tail(df), seen)
         ELSE <<Head(df)>>
              \o DropDuplicates(Tail(df), seen \cup {trade_signature(Head(df))})

\* the rows of the file that upload_trades appends to the rows of existing
NewTradesIn(existing, file) ==
    LET df == [i \in 1..Len(file.rows) |-> ProcessedRow(file, i)]
        no_day_trades ==
            IF get_config(NoClient).auto_remove_day_trades
            THEN SelectSeq(df, LAMBDA t : t.buy_date # t.sell_date)
            ELSE df
        existing_signatures == {trade_signature(t) : t \in Range(existing)}
        not_existing ==
            SelectSeq(no_day_trades,
                      LAMBDA t : trade_signature(t) \notin existing_signatures)
    IN  DropDuplicates(not_existing, {})

NewTrades(file) == NewTradesIn(trades, file)

\* dtype of a column of pd.concat([existing, df]): the common dtype, or the
\* dtype of existing when df has no rows and empty frames are left out of
\* the dtype resolution (exclude_empty, which depends on the pandas version)
ConcatDtype(existing_dtype, df_dtype, df_empty, exclude_empty) ==
    IF df_empty /\ exclude_empty THEN existing_dtype
    ELSE IF existing_dtype = df_dtype THEN existing_dtype
    ELSE "float64"

\* self.trades_df after an accepted upload of file over the rows of existing
UploadedTrades(existing, file, exclude_empty) ==
    LET df == NewTradesIn(existing, file)
        col(c) == ConcatDtype(existing[1].dtypes[c], file.dtypes[c],
                              df = <<>>, exclude_empty)
        dtypes == [buy_price |-> col("buy_price"),
                   sell_price |-> col("sell_price"),
                   quantity |-> col("quantity")]
        all == existing \o df
    IN  IF existing = <<>> THEN df
        ELSE [i \in 1..Len(all) |-> [all[i] EXCEPT !.dtypes = dtypes]]

UploadTrades(file) ==
    /\ IF file.ext \notin {"csv", "xlsx", "xls"}
       THEN /\ result' = [kind |-> "return", ok |-> FALSE,
                          message |-> "Unsupported file format",
                          missing |-> <<>>]
            /\ UNCHANGED trades
       ELSE IF MissingColumns(file.columns) # <<>>
       THEN /\ result' = [kind |-> "return", ok |-> FALSE,
                          message |-> "Missing required columns",
                          missing |-> MissingColumns(file.columns)]
            /\ UNCHANGED trades
       ELSE /\ result' = [kind |-> "return", ok |-> TRUE]
            /\ Len(trades) + Len(NewTrades(file)) <= MaxTrades
            /\ \E exclude_empty \in BOOLEAN :
                   trades' = UploadedTrades(trades, file, exclude_empty)
    /\ UNCHANGED <<config, clients, movements, monthly_capital, auth>>

(***************************************************************************)
(* Clients, movements, overrides, configuration.                           *)
(***************************************************************************)
Done == [kind |-> "return", ok |-> TRUE]

add_or_update_client(username, starting_capital, investment_start_date, active, today) ==
    LET new_row == [starting_capital |-> starting_capital,
                    investment_start_date |->
                        IF investment_start_date = None THEN today
                        ELSE investment_start_date,
                    active |-> active]
    IN  /\ clients' = [c \in DOMAIN clients \cup {username} |->
                           IF c = username THEN new_row ELSE clients[c]]
        /\ result' = Done
        /\ UNCHANGED <<config, trades, movements, monthly_capital, auth>>

\* the movement appended and every movement of the log numbered again
add_capital_movement_Renumbers(client_id, movement_type, amount, date) ==
    /\ Len(movements) < MaxMovements
    /\ client_id \in DOMAIN clients
    /\ amount > 0
    /\ movements' = [i \in 1..Len(movements) + 1 |->
                         IF i <= Len(movements)
                         THEN [movements[i] EXCEPT !.movement_id = i]
                         ELSE [movement_id |-> i, client_id |-> client_id,
                               date |-> date, type |-> movement_type,
                               amount |-> amount]]
    /\ result' = Done
    /\ UNCHANGED <<config, trades, clients, monthly_capital, auth>>

add_capital_movement(client_id, movement_type, amount, date) ==
    /\ Len(movements) < MaxMovements
    /\ client_id \in DOMAIN clients
    /\ amount > 0
    /\ movements' = Append(movements,
                           [movement_id |-> Len(movements) + 1,
                            client_id |-> client_id,
                            date |-> date,
                            type |-> movement_type,
                            amount |-> amount])
    /\ result' = Done
    /\ UNCHANGED <<config, trades, clients, monthly_capital, auth>>

\* a row appended whether or not the month already has one
set_monthly_capital_AlwaysAppends(month_year, capital_amount) ==
    /\ Len(monthly_capital) < MaxOverrides
    /\ monthly_capital' = Append(monthly_capital,
                                 [month |-> MonthStart(month_year),
                                  total_capital |-> capital_amount])
    /\ result' = Done
    /\ UNCHANGED <<config, trades, clients, movements, auth>>

set_monthly_capital(month_year, capital_amount) ==
    LET month_dt == MonthStart(month_year)
        same(r) == MonthOf(r.month) = MonthOf(month_dt)
    IN  /\ IF \E i \in DOMAIN monthly_capital : same(monthly_capital[i])
           THEN monthly_capital' =
                    [i \in DOMAIN monthly_capital |->
                        IF same(monthly_capital[i])
                        THEN [monthly_capital[i] EXCEPT
                                  !.total_capital = capital_amount]
                        ELSE monthly_capital[i]]
           ELSE /\ Len(monthly_capital) < MaxOverrides
                /\ monthly_capital' =
                       Append(monthly_capital,
                              [month |-> month_dt,
                               total_capital |-> capital_amount])
        /\ result' = Done
        /\ UNCHANGED <<config, trades, clients, movements, auth>>

delete_monthly_capital(month_year) ==
    LET month_dt == MonthStart(month_year)
    IN  /\ monthly_capital' =
               SelectSeq(monthly_capital,
                         LAMBDA r : MonthOf(r.month) # MonthOf(month_dt))
        /\ result' = Done
        /\ UNCHANGED <<config, trades, clients, movements, auth>>

\* trader_share written without recomputing investor_share
UpdatedSection_NoRecompute(section, tax_rate, trader_share) ==
    LET with_tax == IF tax_rate # None
                    THEN [section EXCEPT !.tax_rate = tax_rate]
                    ELSE section
    IN  IF trader_share # None
        THEN [with_tax EXCEPT !.trader_share = trader_share]
        ELSE with_tax

\* the section of one level after update_config's two conditional writes
UpdatedSection(section, tax_rate, trader_share) ==
    LET with_tax == IF tax_rate # None
                    THEN [section EXCEPT !.tax_rate = tax_rate]
                    ELSE section
    IN  IF trader_share # None
        THEN [with_tax EXCEPT !.trader_share = trader_share,
                              !.investor_share = 100 - trader_share]
        ELSE with_tax

update_config(tax_rate, trader_share, client_id) ==
    /\ IF client_id = NoClient
       THEN config' = [config EXCEPT
                          !.global = UpdatedSection(config.global,
                                                    tax_rate, trader_share)]
       ELSE LET section == IF client_id \in DOMAIN config.clients
                           THEN config.clients[client_id]
                           ELSE HardDefaults
            IN  config' = [config EXCEPT
                   !.clients =
                       [c \in DOMAIN config.clients \cup {client_id} |->
                           IF c = client_id
                           THEN UpdatedSection(section, tax_rate, trader_share)
                           ELSE config.clients[c]]]
    /\ result' = Done
    /\ UNCHANGED <<trades, clients, movements, monthly_capital, auth>>

\* the client's row and configuration section removed, its movements kept
delete_client_KeepsMovements(client_id) ==
    /\ clients' = [c \in DOMAIN clients \ {client_id} |-> clients[c]]
    /\ config' = [config EXCEPT
                     !.clients = [c \in DOMAIN config.clients \ {client_id} |->
                                      config.clients[c]]]
    /\ trades' = SelectSeq(trades, LAMBDA t : t.client_id # client_id)
    /\ result' = Done
    /\ UNCHANGED <<movements, monthly_capital, auth>>

delete_client(client_id) ==
    /\ clients' = [c \in DOMAIN clients \ {client_id} |-> clients[c]]
    /\ movements' = SelectSeq(movements, LAMBDA r : r.client_id # client_id)
    /\ config' = [config EXCEPT
                     !.clients = [c \in DOMAIN config.clients \ {client_id} |->
                                      config.clients[c]]]
    /\ trades' = SelectSeq(trades, LAMBDA t : t.client_id # client_id)
    /\ result' = Done
    /\ UNCHANGED <<monthly_capital, auth>>

GetClientCapitalFlow(client_id) ==
    /\ result' = get_client_capital_flow(client_id)
    /\ UNCHANGED <<store, auth>>

GetMonthlyStrategyReturns(client_id) ==
    /\ result' = [kind |-> "monthly", client_id |-> client_id,
                  value |-> get_monthly_strategy_returns(client_id)]
    /\ UNCHANGED <<store, auth>>

GetBiweeklyStrategyReturns(client_id) ==
    /\ result' = [kind |-> "biweekly", client_id |-> client_id,
                  value |-> get_biweekly_strategy_returns(client_id)]
    /\ UNCHANGED <<store, auth>>

GetStrategySummary(client_id) ==
    /\ result' = [kind |-> "summary", client_id |-> client_id,
                  value |-> get_strategy_summary(client_id)]
    /\ UNCHANGED <<store, auth>>

(***************************************************************************)
(* Benchmark (get_sp500_monthly_returns) and the monthly table of the      *)
(* strategy analysis page.  A fetch either fails (yfinance missing, an     *)
(* exception of the download), returns an empty history, or returns the    *)
(* month-end closes of consecutive months.                                 *)
(***************************************************************************)
\* the rows of the benchmark: one per month of the history after the first,
\* with the month's change of the close and the compounded change, in
\* hundredths of a percent; no row when the fetch failed or gave nothing
get_sp500_monthly_returns(fetch) ==
    IF fetch.kind # "history" THEN <<>>
    ELSE [i \in 1..Len(fetch.closes) - 1 |->
             [Month |-> PeriodStr([freq |-> "M", ordinal |-> fetch.first_month + i]),
              SP500_Return_Pct |->
                  RoundDiv((fetch.closes[i + 1] - fetch.closes[i]) * 10000,
                           fetch.closes[i]),
              SP500_Cumulative_Return |->
                  RoundDiv((fetch.closes[i + 1] - fetch.closes[1]) * 10000,
                           fetch.closes[1])]]

\* an inner join: the strategy rows of the months missing from the benchmark
\* are dropped
MergeWithBenchmark_Inner(monthly_returns, sp500_returns) ==
    LET matched == SelectSeq(monthly_returns,
                       LAMBDA r : \E b \in Range(sp500_returns) : b.Month = r.Period)
    IN  [i \in 1..Len(matched) |->
            LET b == CHOOSE x \in Range(sp500_returns) : x.Month = matched[i].Period
            IN  [Month |-> matched[i].Period,
                 Return_Pct |-> matched[i].Return_Pct,
                 SP500_Return_Pct |-> b.SP500_Return_Pct,
                 Cumulative_Return |-> matched[i].Cumulative_Return]]

\* monthly_returns.merge(sp500_returns, on='Month', how='left') with the
\* benchmark columns of the unmatched months filled with 0
MergeWithBenchmark(monthly_returns, sp500_returns) ==
    [i \in 1..Len(monthly_returns) |->
        LET r == monthly_returns[i]
            found == {b \in Range(sp500_returns) : b.Month = r.Period}
        IN  [Month |-> r.Period,
             Return_Pct |-> r.Return_Pct,
             SP500_Return_Pct |->
                 IF found = {} THEN 0
                 ELSE (CHOOSE b \in found : TRUE).SP500_Return_Pct,
             Cumulative_Return |-> r.Cumulative_Return]]

\* the monthly table of the page: the strategy's columns, and the
\* benchmark's return when the benchmark has rows
StrategyAnalysisPage(fetch) ==
    LET monthly_returns == get_monthly_strategy_returns(NoClient)
        enabled == IF "enable_sp500_comparison" \in DOMAIN config.global
                   THEN config.global.enable_sp500_comparison ELSE TRUE
        sp500_returns == IF enabled THEN get_sp500_monthly_returns(fetch) ELSE <<>>
    IN  /\ result' = [kind |-> "analysis",
                      fetch |-> fetch,
                      sp500_returns |-> sp500_returns,
                      table |->
                          IF sp500_returns # <<>>
                          THEN MergeWithBenchmark(monthly_returns, sp500_returns)
                          ELSE [i \in 1..Len(monthly_returns) |->
                                   [Month |-> monthly_returns[i].Period,
                                    Return_Pct |-> monthly_returns[i].Return_Pct,
                                    Cumulative_Return |->
                                        monthly_returns[i].Cumulative_Return]]]
        /\ UNCHANGED <<store, auth>>

(***************************************************************************)
(* Accounts and sessions (src/auth.py, class AuthManager), and the client  *)
(* table's synchronisation with data/users.json.                           *)
(***************************************************************************)
\* datetime.now().date() as a day number: the clock starts on day 31
Today == 31 + now \div 24

\* hours a session lives, timedelta(hours=24)
SessionHours == 24

\* session_id returned when no session is created
NoSession == 0

\* _hash_password(password): the SHA-256 digest of the password
hash_password(password) == <<"sha256", password>>

\* self.users after _load_users finds no users file
DefaultUsers ==
    [u \in {"admin"} |->
        [password_hash |-> hash_password("Smita@280135"), role |-> "admin",
         active |-> TRUE]]

\* self.sessions after _cleanup_expired_sessions at time current_time
cleanup_expired_sessions(s, current_time) ==
    [id \in {i \in DOMAIN s : ~(current_time - s[i].created_at > SessionHours)} |-> s[id]]

\* the value of is_authenticated(session_id)
is_authenticated(session_id) == session_id \in DOMAIN sessions

\* the value of has_role(session_id, required_role)
has_role(session_id, required_role) ==
    IF session_id \in DOMAIN sessions
    THEN LET user_role == sessions[session_id].role
         IN  CASE required_role = "admin" -> user_role = "admin"
               [] required_role = "client" -> user_role \in {"admin", "client"}
               [] OTHER -> FALSE
    ELSE FALSE

\* login: expired sessions are removed first; the new session id is a fresh
\* random token, the (issued + 1)-th one generated
login(username, password) ==
    LET live == cleanup_expired_sessions(sessions, now)
        session_id == issued + 1
    IN  /\ IF /\ username \in DOMAIN users
              /\ users[username].active
              /\ users[username].password_hash = hash_password(password)
           THEN /\ issued < MaxSessions
                /\ result' = [kind |-> "login", username |-> username,
                              session_id |-> session_id,
                              role |-> users[username].role]
                /\ sessions' = [id \in DOMAIN live \cup {session_id} |->
                                   IF id = session_id
                                   THEN [username |-> username,
                                         role |-> users[username].role,
                                         created_at |-> now]
                                   ELSE live[id]]
                /\ issued' = session_id
           ELSE /\ result' = [kind |-> "login", username |-> username,
                              session_id |-> NoSession, role |-> "None"]
                /\ sessions' = live
                /\ UNCHANGED issued
        /\ UNCHANGED <<store, users, now>>

logout(session_id) ==
    /\ result' = [kind |-> "logout", session_id |-> session_id]
    /\ sessions' = [id \in DOMAIN sessions \ {session_id} |-> sessions[id]]
    /\ UNCHANGED <<store, users, issued, now>>

IsAuthenticated(session_id) ==
    /\ result' = [kind |-> "is_authenticated", session_id |-> session_id,
                  value |-> is_authenticated(session_id)]
    /\ UNCHANGED <<store, auth>>

HasRole(session_id, required_role) ==
    /\ result' = [kind |-> "has_role", session_id |-> session_id,
                  required_role |-> required_role,
                  value |-> has_role(session_id, required_role)]
    /\ UNCHANGED <<store, auth>>

\* create_client as the client form calls it, without an investment start
\* date
create_client(username, password, starting_capital) ==
    /\ IF username \notin DOMAIN users
       THEN /\ result' = Done
            /\ users' = [u \in DOMAIN users \cup {username} |->
                            IF u = username
                            THEN [password_hash |-> hash_password(password),
                                  role |-> "client",
                                  starting_capital |-> starting_capital,
                                  investment_start_date |-> Today,
                                  active |-> TRUE]
                            ELSE users[u]]
       ELSE /\ result' = [kind |-> "return", ok |-> FALSE]
            /\ UNCHANGED users
    /\ UNCHANGED <<store, sessions, issued, now>>

\* update_user(username, active=active)
update_user(username, active) ==
    /\ IF username \in DOMAIN users
       THEN /\ result' = Done
            /\ users' = [users EXCEPT ![username].active = active]
       ELSE /\ result' = [kind |-> "return", ok |-> FALSE]
            /\ UNCHANGED users
    /\ UNCHANGED <<store, sessions, issued, now>>

delete_user(username) ==
    /\ IF username \in DOMAIN users /\ username # "admin"
       THEN /\ result' = Done
            /\ users' = [u \in DOMAIN users \ {username} |-> users[u]]
       ELSE /\ result' = [kind |-> "return", ok |-> FALSE]
            /\ UNCHANGED users
    /\ UNCHANGED <<store, sessions, issued, now>>

\* the rows sync_clients_from_users builds from the client-role users
ClientUsers == {u \in DOMAIN users : users[u].role = "client"}

UserRow(info) ==
    [starting_capital |->
         IF "starting_capital" \in DOMAIN info THEN info.starting_capital ELSE 0,
     investment_start_date |->
         IF "investment_start_date" \in DOMAIN info
         THEN info.investment_start_date ELSE Today,
     active |-> IF "active" \in DOMAIN info THEN info.active ELSE TRUE]

\* self.clients_df after sync_clients_from_users over the table df
sync_clients_from_users(df) ==
    [c \in DOMAIN df \cup ClientUsers |->
        IF c \in ClientUsers THEN UserRow(users[c]) ELSE df[c]]

\* refresh_data: every table is read back from the file its last change was
\* saved to, and the client table is then synchronised with users.json
refresh_data ==
    /\ result' = Done
    /\ clients' = sync_clients_from_users(clients)
    /\ UNCHANGED <<config, trades, movements, monthly_capital, auth>>

\* None where a password is expected
NoPassword == ""

update_client(client_id, starting_capital, investment_start_date, active, new_password) ==
    /\ IF client_id \in DOMAIN clients
       THEN /\ clients' = [clients EXCEPT
                              ![client_id] =
                                  [starting_capital |-> starting_capital,
                                   investment_start_date |-> investment_start_date,
                                   active |-> active]]
            /\ IF new_password # NoPassword /\ client_id \in DOMAIN users
               THEN users' = [users EXCEPT ![client_id].password_hash =
                                               hash_password(new_password)]
               ELSE UNCHANGED users
            /\ result' = [kind |-> "update_client", client_id |-> client_id,
                          ok |-> new_password = NoPassword
                                 \/ client_id \in DOMAIN users]
       ELSE /\ result' = [kind |-> "update_client", client_id |-> client_id,
                          ok |-> FALSE]
            /\ UNCHANGED <<clients, users>>
    /\ UNCHANGED <<config, trades, movements, monthly_capital, sessions, issued, now>>

\* the clock advances by half a day
Tick ==
    /\ now + 12 <= MaxClock
    /\ now' = now + 12
    /\ result' = Idle
    /\ UNCHANGED <<store, users, sessions, issued>>

(***************************************************************************)
(* Initial state: the manager constructed over a data directory whose      *)
(* tables exist and are empty (date columns parsed by the loaders), and    *)
(* the account manager constructed without a users file, at hour 0.        *)
(***************************************************************************)
Init ==
    /\ config = DefaultConfig
    /\ trades = <<>>
    /\ clients = << >>
    /\ movements = <<>>
    /\ monthly_capital = <<>>
    /\ users = DefaultUsers
    /\ sessions = << >>
    /\ issued = 0
    /\ now = 0
    /\ result = Idle

(***************************************************************************)
(* Inputs.                                                                 *)
(***************************************************************************)
\* a winning trade sold in the first month (day 16) and a losing trade sold
\* in the second month (day 32)
TradeRows ==
    {[buy_date |-> 10, sell_date |-> 16, stock |-> "AAA",
      buy_price |-> 100, sell_price |-> 110, quantity |-> 100],
     [buy_date |-> 20, sell_date |-> 32, stock |-> "BBB",
      buy_price |-> 100, sell_price |-> 95, quantity |-> 100]}

CanonicalHeader ==
    <<"Buy Date", "Sell Date", "Stock", "Buy Price", "Sell Price", "Quantity">>

SeqsUpTo(S, n) == UNION {[1..k -> S] : k \in 1..n}

\* a file whose prices and quantities are all written without a decimal point
Int64Columns ==
    [buy_price |-> "int64", sell_price |-> "int64", quantity |-> "int64"]

TradeFiles ==
    {[ext |-> "csv", columns |-> CanonicalHeader, rows |-> rows,
      dtypes |-> Int64Columns] :
        rows \in SeqsUpTo(TradeRows, MaxRows)}

\* day 30 is the last day of the first month, day 32 is in the second month;
\* both are in the week of the second trade's sale
MovementInputs ==
    {[client_id |-> "c1", type |-> "contribution", date |-> 32],
     [client_id |-> "c1", type |-> "contribution", date |-> 30],
     [client_id |-> "c1", type |-> "withdrawal", date |-> 32],
     [client_id |-> "c2", type |-> "contribution", date |-> 32]}

(***************************************************************************)
(* Capital-flow specification: clients, trade imports, capital movements,  *)
(* configuration updates and capital-flow queries.                         *)
(***************************************************************************)
\* a client investing from day 1 or, no date being given, from today (day 31,
\* the first day of the second month)
AddClient ==
    \E c \in ClientIds, investment_start_date \in {1, None} :
        add_or_update_client(c, 10000, investment_start_date, TRUE, 31)

AddMovement ==
    \E m \in MovementInputs :
        add_capital_movement(m.client_id, m.type, 2000, m.date)

Upload == \E file \in TradeFiles : UploadTrades(file)

UpdateGlobalConfig == update_config(30, 50, NoClient)

UpdateClientConfig == update_config(None, 50, "c1")

QueryFlow == \E c \in ClientIds : GetClientCapitalFlow(c)

Next ==
    \/ AddClient
    \/ AddMovement
    \/ Upload
    \/ UpdateGlobalConfig
    \/ UpdateClientConfig
    \/ QueryFlow

Spec == Init /\ [][Next]_vars

(***************************************************************************)
(* Configuration specification: update_config with every combination of    *)
(* arguments, client creation and deletion.                                *)
(***************************************************************************)
UpdateConfig ==
    \E tax_rate \in {None, 0, 30}, trader_share \in {None, 50, 100},
       client_id \in ClientIds \cup {NoClient} :
        update_config(tax_rate, trader_share, client_id)

DeleteClient == \E c \in ClientIds : delete_client(c)

NextConfig ==
    \/ UpdateConfig
    \/ DeleteClient
    \/ AddClient

SpecConfig == Init /\ [][NextConfig]_vars

(***************************************************************************)
(* Import specification: uploads of accepted and of rejected files into    *)
(* the trade store.                                                        *)
(***************************************************************************)
\* the two trades of TradeRows and a day trade (bought and sold on day 40)
ImportRows ==
    TradeRows \cup
    {[buy_date |-> 40, sell_date |-> 40, stock |-> "CCC",
      buy_price |-> 50, sell_price |-> 60, quantity |-> 10]}

\* a file whose prices are written with a decimal point ("100.0")
FloatPriceColumns ==
    [buy_price |-> "float64", sell_price |-> "float64", quantity |-> "int64"]

SnakeHeader ==
    <<"buy_date", "sell_date", "stock", "buy_price", "sell_price", "quantity">>

\* "Qty" does not normalise to "quantity"
QtyHeader ==
    <<"Buy Date", "Sell Date", "Stock", "Buy Price", "Sell Price", "Qty">>

\* no stock and no buy price column
ShortHeader == <<"Sell Date", "Notes", "Quantity", "Sell Price", "Buy Date">>

OneRow == <<CHOOSE r \in TradeRows : r.stock = "AAA">>

\* whole-number files of up to MaxRows rows, one-row files with decimal
\* prices, and a spreadsheet with the canonical names as its header
AcceptedFiles ==
    {[ext |-> "csv", columns |-> CanonicalHeader, rows |-> rows,
      dtypes |-> Int64Columns] : rows \in SeqsUpTo(ImportRows, MaxRows)}
    \cup {[ext |-> "csv", columns |-> CanonicalHeader, rows |-> <<r>>,
           dtypes |-> FloatPriceColumns] : r \in ImportRows}
    \cup {[ext |-> "xlsx", columns |-> SnakeHeader, rows |-> OneRow,
           dtypes |-> Int64Columns]}

\* files of an unsupported type, and supported files with missing columns
RejectedFiles ==
    {[ext |-> "txt", columns |-> columns, rows |-> OneRow,
      dtypes |-> Int64Columns] :
        columns \in {CanonicalHeader, QtyHeader, ShortHeader}}
    \cup {[ext |-> "csv", columns |-> columns, rows |-> OneRow,
           dtypes |-> Int64Columns] :
             columns \in {QtyHeader, ShortHeader}}

ImportFiles == AcceptedFiles \cup RejectedFiles

Import == \E file \in ImportFiles : UploadTrades(file)

NextImport == Import

SpecImport == Init /\ [][NextImport]_vars

(***************************************************************************)
(* Pooled-capital specification: clients, movements, single-trade uploads  *)
(* and the queries of the aggregator and of the capital flow.              *)
(***************************************************************************)
\* c1 is active and invests from day 1; c2 is inactive and, no date being
\* given, invests from today (day 31)
PooledClients ==
    {[client_id |-> "c1", starting_capital |-> 10000,
      investment_start_date |-> 1, active |-> TRUE],
     [client_id |-> "c2", starting_capital |-> 5000,
      investment_start_date |-> None, active |-> FALSE]}

\* c1 withdraws all its capital in the first month; c2 contributes in the
\* second month
PooledMovements ==
    {[client_id |-> "c1", type |-> "withdrawal", amount |-> 10000, date |-> 5],
     [client_id |-> "c2", type |-> "contribution", amount |-> 2000, date |-> 32]}

\* a trade without profit or loss, sold on day 25 (first month, the week
\* after the first trade's)
FlatRow ==
    [buy_date |-> 12, sell_date |-> 25, stock |-> "DDD",
     buy_price |-> 100, sell_price |-> 100, quantity |-> 100]

PooledFiles ==
    {[ext |-> "csv", columns |-> CanonicalHeader, rows |-> <<r>>,
      dtypes |-> Int64Columns] : r \in TradeRows \cup {FlatRow}}

AddPooledClient ==
    \E c \in PooledClients :
        add_or_update_client(c.client_id, c.starting_capital,
                             c.investment_start_date, c.active, 31)

MoveCapital ==
    \E m \in PooledMovements :
        add_capital_movement(m.client_id, m.type, m.amount, m.date)

UploadOne == \E file \in PooledFiles : UploadTrades(file)

QueryMonthly ==
    \E c \in ClientIds \cup {NoClient} : GetMonthlyStrategyReturns(c)

QueryBiweekly ==
    \E c \in ClientIds \cup {NoClient} : GetBiweeklyStrategyReturns(c)

QuerySummary ==
    \E c \in ClientIds \cup {NoClient} : GetStrategySummary(c)

NextCapital ==
    \/ AddPooledClient
    \/ MoveCapital
    \/ UploadOne
    \/ QueryMonthly
    \/ QueryBiweekly
    \/ QuerySummary
    \/ QueryFlow

SpecCapital == Init /\ [][NextCapital]_vars

(***************************************************************************)
(* Override specification: clients, a late contribution, uploads, monthly  *)
(* capital overrides set and deleted, and the aggregator's queries.        *)
(***************************************************************************)
\* (month, amount) pairs entered in the monthly-capital form
OverrideInputs ==
    {[month_year |-> 0, capital_amount |-> 5000],
     [month_year |-> 0, capital_amount |-> 20000],
     [month_year |-> 1, capital_amount |-> 20000]}

OverrideMonths == {o.month_year : o \in OverrideInputs}

\* the file of the first trade and the file of both trades
BatchFiles ==
    {[ext |-> "csv", columns |-> CanonicalHeader, rows |-> rows,
      dtypes |-> Int64Columns] :
        rows \in {<<r>> : r \in {x \in TradeRows : x.stock = "AAA"}}
                 \cup {<<a, b>> : a \in {x \in TradeRows : x.stock = "AAA"},
                                  b \in {x \in TradeRows : x.stock = "BBB"}}}

ContributeLate ==
    \E m \in {x \in PooledMovements : x.type = "contribution"} :
        add_capital_movement(m.client_id, m.type, m.amount, m.date)

UploadBatch == \E file \in BatchFiles : UploadTrades(file)

SetMonthlyCapital ==
    \E o \in OverrideInputs :
        set_monthly_capital(o.month_year, o.capital_amount)

DeleteMonthlyCapital ==
    \E month_year \in OverrideMonths : delete_monthly_capital(month_year)

NextOverride ==
    \/ AddPooledClient
    \/ ContributeLate
    \/ UploadBatch
    \/ SetMonthlyCapital
    \/ DeleteMonthlyCapital
    \/ QueryMonthly
    \/ QueryBiweekly

SpecOverride == Init /\ [][NextOverride]_vars

(***************************************************************************)
(* Ledger specification: clients enrolled and deleted, movements recorded,  *)
(* imports of files with a client_id column, client configuration.         *)
(***************************************************************************)
TaggedHeader == CanonicalHeader \o <<"client_id">>

\* the winning trade tagged with c1 and the losing trade tagged with c2
TaggedRows ==
    {[buy_date |-> 10, sell_date |-> 16, stock |-> "AAA",
      buy_price |-> 100, sell_price |-> 110, quantity |-> 100,
      client_id |-> "c1"],
     [buy_date |-> 20, sell_date |-> 32, stock |-> "BBB",
      buy_price |-> 100, sell_price |-> 95, quantity |-> 100,
      client_id |-> "c2"]}

TaggedFiles ==
    {[ext |-> "csv", columns |-> TaggedHeader, rows |-> rows,
      dtypes |-> Int64Columns] :
        rows \in SeqsUpTo(TaggedRows, MaxRows)}

Enrol == \E c \in ClientIds : add_or_update_client(c, 10000, 1, TRUE, 31)

Contribute == \E c \in ClientIds : add_capital_movement(c, "contribution", 2000, 32)

UploadTagged == \E file \in TaggedFiles : UploadTrades(file)

ConfigureClient == \E c \in ClientIds : update_config(None, 50, c)

NextLedger ==
    \/ Enrol
    \/ Contribute
    \/ UploadTagged
    \/ ConfigureClient
    \/ DeleteClient

SpecLedger == Init /\ [][NextLedger]_vars

(***************************************************************************)
(* Movement-log specification: every operation that runs while a movement  *)
(* log exists.                                                             *)
(***************************************************************************)
EditClient == \E c \in ClientIds : update_client(c, 20000, 1, TRUE, NoPassword)

SetOverride == set_monthly_capital(0, 20000)

DeleteOverride == delete_monthly_capital(0)

QueryLedger == GetClientCapitalFlow("c1")

NextLog ==
    \/ Enrol
    \/ EditClient
    \/ Contribute
    \/ UploadBatch
    \/ UpdateClientConfig
    \/ SetOverride
    \/ DeleteOverride
    \/ DeleteClient
    \/ QueryLedger

SpecLog == Init /\ [][NextLog]_vars

(***************************************************************************)
(* Start-date specification: a client investing from day 1 or from day 20, *)
(* one-trade imports (sales on days 16, 25 and 32) and the aggregates.     *)
(***************************************************************************)
AddLateClient ==
    \E investment_start_date \in {1, 20} :
        add_or_update_client("c1", 10000, investment_start_date, TRUE, 31)

NextStart ==
    \/ AddLateClient
    \/ UploadOne
    \/ QueryMonthly
    \/ QueryBiweekly

SpecStart == Init /\ [][NextStart]_vars

(***************************************************************************)
(* Benchmark specification: clients, one-trade imports and the strategy    *)
(* analysis page under every outcome of the benchmark fetch.               *)
(***************************************************************************)
\* a history ending in the first month (the second month is missing from
\* the benchmark) and one covering both months
FetchOutcomes ==
    {[kind |-> "ImportError"], [kind |-> "Exception"], [kind |-> "empty"],
     [kind |-> "history", first_month |-> 0 - 1, closes |-> <<100, 110>>],
     [kind |-> "history", first_month |-> 0 - 1, closes |-> <<100, 110, 99>>]}

ViewAnalysis == \E fetch \in FetchOutcomes : StrategyAnalysisPage(fetch)

NextBenchmark ==
    \/ Enrol
    \/ UploadOne
    \/ ViewAnalysis

SpecBenchmark == Init /\ [][NextBenchmark]_vars

(***************************************************************************)
(* Refresh specification: accounts created by the client form, client rows *)
(* added directly, client edits and refreshes.                             *)
(***************************************************************************)
CreateClient == \E c \in ClientIds : create_client(c, "secret", 10000)

EditAccount ==
    \E c \in ClientIds, active \in BOOLEAN, new_password \in {NoPassword, "changed"} :
        update_client(c, 20000, 1, active, new_password)

RefreshData == refresh_data

NextRefresh ==
    \/ CreateClient
    \/ Enrol
    \/ EditAccount
    \/ RefreshData

SpecRefresh == Init /\ [][NextRefresh]_vars

(***************************************************************************)
(* Account specification: one client account created, deactivated,         *)
(* reactivated and deleted; logins with right and wrong passwords,         *)
(* logouts, session checks, and the clock.                                 *)
(***************************************************************************)
Passwords == {"secret", "wrong", "Smita@280135"}

SessionIds == 1..MaxSessions

Register == create_client("c1", "secret", 10000)

SetActive == \E active \in BOOLEAN : update_user("c1", active)

DeleteUser == \E u \in {"admin", "c1"} : delete_user(u)

Login == \E u \in {"admin", "c1"}, password \in Passwords : login(u, password)

Logout == \E s \in SessionIds : logout(s)

CheckSession == \E s \in SessionIds : IsAuthenticated(s)

CheckRole == \E s \in SessionIds, role \in {"admin", "client"} : HasRole(s, role)

NextAuth ==
    \/ Register
    \/ SetActive
    \/ DeleteUser
    \/ Login
    \/ Logout
    \/ CheckSession
    \/ CheckRole
    \/ Tick

SpecAuth == Init /\ [][NextAuth]_vars

(***************************************************************************)
(* Properties.  A result of kind "flow" or "none" is what the last         *)
(* get_client_capital_flow call returned; every other operation replaces   *)
(* the result, so the stores are those the call read.                      *)
(***************************************************************************)
IsFlow == result.kind = "flow"

Abs(x) == IF x < 0 THEN 0 - x ELSE x

Last(s) == s[Len(s)]

BothBreakdowns == {result.value.monthly_breakdown, result.value.biweekly_breakdown}

Chained(b) ==
    \A i \in 1..(Len(b) - 1) : b[i + 1].starting_capital = b[i].ending_capital

\* C1 (ledger chaining): in the result of get_client_capital_flow, in the
\* monthly and in the biweekly breakdown, the starting_capital of every period
\* after the first equals the ending_capital of the period before it.
C1_LedgerChaining ==
    IsFlow => \A b \in BothBreakdowns : Chained(b)

\* a result with two periods in both breakdowns, and a second month that
\* received a contribution
C1_Witness ==
    /\ IsFlow
    /\ Len(result.value.monthly_breakdown) = 2
    /\ Len(result.value.biweekly_breakdown) = 2
    /\ result.value.monthly_breakdown[2].net_contributions > 0
    /\ result.value.monthly_breakdown[1].investor_share > 0

\* the anchor of the result: starting capital plus all-time contributions
\* minus all-time withdrawals, in cents
Anchor ==
    result.value.starting_capital + result.value.total_contributions
    - result.value.total_withdrawals

\* C2 (anchor): the first period's starting_capital, in the monthly and in the
\* biweekly breakdown, equals starting_capital + all-time contributions -
\* all-time withdrawals.
C2_AnchorFirstPeriod ==
    IsFlow => \A b \in BothBreakdowns :
                  b # <<>> => b[1].starting_capital = Anchor

\* C3 (split conservation), as claimed: in every emitted period record
\* investor_share + trader_share equals profit_after_tax.
C3_SplitExact ==
    IsFlow => \A b \in BothBreakdowns : \A i \in DOMAIN b :
                  b[i].investor_share + b[i].trader_share = b[i].profit_after_tax

\* C3 (split conservation), amended: in every emitted period record
\* investor_share + trader_share differs from profit_after_tax by at most one
\* cent, the three fields being rounded to cents one by one.
C3_SplitWithinCent ==
    IsFlow => \A b \in BothBreakdowns : \A i \in DOMAIN b :
                  Abs(b[i].investor_share + b[i].trader_share
                      - b[i].profit_after_tax) <= 1

\* a record of a client with its own configuration section whose two shares
\* miss the profit after tax by one cent
C3_Witness ==
    /\ IsFlow
    /\ result.client_id \in DOMAIN config.clients
    /\ \E b \in BothBreakdowns : \E i \in DOMAIN b :
           /\ b[i].profit_after_tax # 0
           /\ Abs(b[i].investor_share + b[i].trader_share
                  - b[i].profit_after_tax) = 1

SharesSumToOne(cfg) == cfg.trader_share + cfg.investor_share = 100

\* C4 (config invariant): after any sequence of update_config and
\* delete_client calls the global configuration and every client's resolved
\* configuration have trader_share + investor_share = 1, and a call that sets
\* trader_share leaves investor_share = 1 - trader_share at the level it wrote.
C4_ConfigInvariant ==
    /\ [](\A c \in ClientIds \cup {NoClient} : SharesSumToOne(get_config(c)))
    /\ [][\A c \in ClientIds \cup {NoClient}, t \in {None, 0, 30},
            s \in {50, 100} :
              update_config(t, s, c) =>
                  /\ get_config_in(config', c).trader_share = s
                  /\ get_config_in(config', c).investor_share = 100 - s]_vars

\* a client section with trader_share 1 and investor_share 0 beside a global
\* configuration with trader_share 0.5
C4_Witness ==
    /\ config.global.trader_share = 50
    /\ "c1" \in DOMAIN config.clients
    /\ config.clients["c1"].trader_share = 100
    /\ get_config("c2").investor_share = 50

\* C5 (field-by-field fallback): a call update_config(tax_rate = x,
\* client_id = c) for a client without a section overrides tax_rate only, so
\* get_config(c) still gives the global trader_share and investor_share.
C5_FieldFallback ==
    [][\A c \in ClientIds, x \in {0, 30} :
          (c \notin DOMAIN config.clients /\ update_config(x, None, c)) =>
              /\ get_config_in(config', c).tax_rate = x
              /\ get_config_in(config', c).trader_share
                     = config'.global.trader_share
              /\ get_config_in(config', c).investor_share
                     = config'.global.investor_share]_vars

\* C6 (only the investor's share compounds): in every iteration of the
\* monthly and of the biweekly walk the capital carried out is the capital after
\* contributions plus the investor's share, the next iteration starts from
\* it, and the emitted ending_capital is capital_after_contributions +
\* investor_share to the cent of rounding.
C6_InvestorShareCompounds ==
    IsFlow =>
        /\ \A w \in {MonthlyWalk(result.client_id),
                     BiweeklyWalk(result.client_id)} :
               \A i \in DOMAIN w :
                   /\ w[i].ending = w[i].start + w[i].net_contributions
                                    + w[i].investor_share
                   /\ i < Len(w) => w[i + 1].start = w[i].ending
        /\ \A b \in BothBreakdowns : \A i \in DOMAIN b :
               Abs(b[i].ending_capital
                   - (b[i].capital_after_contributions + b[i].investor_share))
                   <= 1

\* a result with a losing period, whose negative profit after tax is split,
\* after a winning one
C6_Witness ==
    /\ IsFlow
    /\ Len(result.value.monthly_breakdown) = 2
    /\ result.value.monthly_breakdown[1].trader_share > 0
    /\ result.value.monthly_breakdown[2].profit_after_tax < 0
    /\ result.value.monthly_breakdown[2].trader_share < 0

\* the client of the reference scenario: capital 10000, no movements, tax
\* rate 0.25, trader share 0.40
ReferenceClient(c) ==
    /\ c \in DOMAIN clients
    /\ clients[c].starting_capital = 10000
    /\ ClientMovements(c) = <<>>
    /\ get_config(c).tax_rate = 25
    /\ get_config(c).trader_share = 40

ReferenceRecord(r) ==
    /\ r.capital_after_contributions = 1000000
    /\ r.profit_after_tax = 75000
    /\ r.investor_share = 45000
    /\ r.trader_share = 30000
    /\ r.ending_capital = 1045000

\* C7 (reference scenario): for such a client a breakdown of one period with
\* return_pct = 10 holds capital_after_contributions 10000, profit_after_tax
\* 750, investor_share 450, trader_share 300, ending_capital 10450, and the
\* returned current_capital is 10450.
C7_ReferenceScenario ==
    (IsFlow /\ ReferenceClient(result.client_id)) =>
        /\ \A b \in BothBreakdowns :
               (Len(b) = 1 /\ b[1].return_pct = 1000) => ReferenceRecord(b[1])
        /\ (/\ Len(result.value.monthly_breakdown) = 1
            /\ result.value.monthly_breakdown[1].return_pct = 1000)
               => result.value.current_capital = 1045000

C7_Witness ==
    /\ IsFlow
    /\ ReferenceClient(result.client_id)
    /\ \A b \in BothBreakdowns : Len(b) = 1 /\ b[1].return_pct = 1000
    /\ result.value.current_capital = 1045000

\* net of the client's movements dated in the period (month or week) that
\* starts on day first, in cents
NetDatedIn(client_id, text, first) ==
    100 * NetOf(SelectSeq(ClientMovements(client_id),
            LAMBDA r : IF text = "month" THEN MonthOf(r.date) = MonthOf(first)
                       ELSE WeekOf(r.date) = WeekOf(first)))

\* C8 (contribution before return): in both breakdowns, for every period
\* after the first, capital_after_contributions = ending_capital of the
\* period before + the net of this client's movements dated in the period, and
\* the period's profit is computed on that figure.
C8_ContributionBeforeReturn ==
    IsFlow => \A b \in BothBreakdowns : \A i \in 2..Len(b) :
        LET net == NetDatedIn(result.client_id, b[i].period.text,
                              b[i].period.first)
        IN  /\ b[i].net_contributions = net
            /\ b[i].capital_after_contributions = b[i - 1].ending_capital + net

\* C9 (terminal figures): current_capital is the ending_capital of the last
\* period of the monthly walk and total_returns the sum of profit_after_tax
\* over the periods of that walk.
C9_TerminalFigures ==
    (IsFlow /\ result.value.monthly_breakdown # <<>>) =>
        /\ result.value.current_capital
               = Last(result.value.monthly_breakdown).ending_capital
        /\ result.value.total_returns
               = SumField(result.value.monthly_breakdown, "profit_after_tax")

\* a result of two months whose two walks end on different capitals and add
\* up to different returns
C9_Witness ==
    /\ IsFlow
    /\ Len(result.value.monthly_breakdown) = 2
    /\ result.value.current_capital
           # Last(result.value.biweekly_breakdown).ending_capital
    /\ result.value.total_returns
           # SumField(result.value.biweekly_breakdown, "profit_after_tax")

\* C10 (not found): get_client_capital_flow of a client_id that is not in the
\* client table returns None, a client_id of the table gets a result, and the
\* call leaves configuration, trades, clients, movements and overrides as
\* they were.
C10_NotFound ==
    /\ [](result.kind \in {"none", "flow"} =>
              (result.kind = "none") = (result.client_id \notin DOMAIN clients))
    /\ [][\A c \in ClientIds :
              (c \notin DOMAIN clients /\ GetClientCapitalFlow(c)) =>
                  (result'.kind = "none" /\ UNCHANGED store)]_vars

\* None returned while trades and movements are on file
C10_Witness ==
    /\ result.kind = "none"
    /\ trades # <<>>
    /\ movements # <<>>

\* the client has a trade history: some stored trade was sold on or after the
\* client's investment_start_date
HasHistory(c) ==
    \E i \in DOMAIN trades :
        trades[i].sell_date >= clients[c].investment_start_date

\* C11 (empty history): for an existing client with no trades, or none sold
\* on or after the investment start date, get_client_capital_flow returns no
\* monthly and no biweekly period, total_returns = 0 and current_capital =
\* starting_capital + total contributions - total withdrawals.
C11_EmptyHistory ==
    (IsFlow /\ ~HasHistory(result.client_id)) =>
        /\ result.value.monthly_breakdown = <<>>
        /\ result.value.biweekly_breakdown = <<>>
        /\ result.value.total_returns = 0
        /\ result.value.current_capital = Anchor
        /\ result.value.starting_capital
               = 100 * clients[result.client_id].starting_capital
        /\ result.value.total_contributions
               = 100 * TotalContributions(result.client_id)
        /\ result.value.total_withdrawals
               = 100 * TotalWithdrawals(result.client_id)

\* a flow without periods for a client who has movements and invested after
\* the only stored trade was sold
C11_Witness ==
    /\ IsFlow
    /\ trades # <<>>
    /\ ~HasHistory(result.client_id)
    /\ result.value.total_contributions > 0
    /\ result.value.monthly_breakdown = <<>>
    /\ result.value.current_capital
           = result.value.starting_capital + result.value.total_contributions

\* the six values the specification calls the signature of a trade
Signature6(t) ==
    <<t.buy_date, t.sell_date, t.stock, t.buy_price, t.sell_price, t.quantity>>

\* the rows of a store without the dtypes of their columns
Contents(rows) == [i \in DOMAIN rows |-> [rows[i] EXCEPT !.dtypes = Int64Columns]]

\* C12 (dedup idempotence): for every trade file F and every prior state of
\* the trade store, upload_trades(F) followed by upload_trades(F) leaves the
\* same trade store contents as a single upload_trades(F).
C12_DedupIdempotence ==
    \A file \in AcceptedFiles, e1, e2 \in BOOLEAN :
        LET once == UploadedTrades(trades, file, e1)
        IN  Contents(UploadedTrades(once, file, e2)) = Contents(once)

NoTwoAlike(rows) ==
    \A i, j \in DOMAIN rows : i # j => Signature6(rows[i]) # Signature6(rows[j])

RECURSIVE FirstOccurrences(_, _)
\* the rows of a batch whose six values are neither in seen nor in an
\* earlier row of the batch
FirstOccurrences(rows, seen) ==
    IF rows = <<>> THEN <<>>
    ELSE IF Signature6(Head(rows)) \in seen
         THEN FirstOccurrences(Tail(rows), seen)
         ELSE <<Signature6(Head(rows))>>
              \o FirstOccurrences(Tail(rows),
                                  seen \cup {Signature6(Head(rows))})

\* C13 (no double counting): after any sequence of upload_trades calls no two
\* trades of the store have the same (buy_date, sell_date, stock, buy_price,
\* sell_price, quantity); an accepted upload appends, of the rows of the file
\* that are not day trades, those matching no stored trade, and of rows
\* repeated in the batch the first only.
C13_NoDoubleCounting ==
    /\ [](NoTwoAlike(trades))
    /\ [][\A file \in AcceptedFiles :
              UploadTrades(file) =>
                  LET kept == SelectSeq(file.rows,
                                  LAMBDA r : r.buy_date # r.sell_date)
                      added == FirstOccurrences(kept,
                                   {Signature6(t) : t \in Range(trades)})
                  IN  /\ Len(trades') = Len(trades) + Len(added)
                      /\ \A i \in 1..Len(trades) :
                             Signature6(trades'[i]) = Signature6(trades[i])
                      /\ \A i \in 1..Len(added) :
                             Signature6(trades'[Len(trades) + i]) = added[i]]_vars

\* canonical column col is found in the header: some header normalises to
\* the same key as col
Resolvable(col, columns) ==
    \E h \in Range(columns) : Normalize(h) = Normalize(col)

Unresolvable(columns) ==
    {required_columns[i] : i \in {j \in DOMAIN required_columns :
                                      ~Resolvable(required_columns[j], columns)}}

\* the files of AcceptedFiles are those the claim does not reject: of a
\* supported type and with the six canonical columns
AcceptedAreComplete ==
    \A file \in AcceptedFiles :
        /\ file.ext \in {"csv", "xlsx", "xls"}
        /\ Unresolvable(file.columns) = {}

\* C14 (rejected import writes nothing): upload_trades of a file of
\* unsupported type, or of a file in which a canonical column is missing after
\* header normalisation, returns failure and leaves the trade store unchanged;
\* for a missing column the message names exactly the missing columns; a
\* supported file with all six columns is not rejected.
C14_RejectedImport ==
    /\ AcceptedAreComplete
    /\ [][/\ \A file \in RejectedFiles :
                 UploadTrades(file) =>
                     LET supported == file.ext \in {"csv", "xlsx", "xls"}
                         lacking == Unresolvable(file.columns)
                     IN  /\ ~supported \/ lacking # {}
                         /\ result'.ok = FALSE
                         /\ UNCHANGED store
                         /\ supported =>
                                /\ Range(result'.missing) = lacking
                                /\ Len(result'.missing) = Cardinality(lacking)
          /\ result'.ok \/ \A file \in AcceptedFiles : ~UploadTrades(file)]_vars

\* an upload rejected for its two missing columns while trades are on file
C14_Witness ==
    /\ result.kind = "return"
    /\ result.ok = FALSE
    /\ Range(result.missing) = {"stock", "buy_price"}
    /\ trades # <<>>

IsReturns == result.kind \in {"monthly", "biweekly"}

\* the capital denominator of the period a breakdown record is about
PeriodCapital(period) ==
    IF period.text = "month" THEN get_monthly_capital(period)
    ELSE get_biweekly_capital(period)

\* C15 (zero-denominator safety): every monthly or biweekly period whose
\* capital denominator is 0 has return_pct = 0 in the aggregate, whatever its
\* P&L, and the reconciliation walk of such a period runs on a return of 0:
\* no profit, no shares, ending capital = capital after contributions.
C15_ZeroDenominator ==
    /\ IsReturns =>
           \A i \in DOMAIN result.value :
               result.value[i].Client_Capital = 0
                   => result.value[i].Return_Pct = 0
    /\ IsFlow =>
           \A b \in BothBreakdowns : \A i \in DOMAIN b :
               PeriodCapital(b[i].period) = 0 =>
                   /\ b[i].return_pct = 0
                   /\ b[i].profit_after_tax = 0
                   /\ b[i].investor_share = 0
                   /\ b[i].trader_share = 0
                   /\ b[i].ending_capital = b[i].capital_after_contributions

\* a biweekly aggregate with two periods of denominator 0, one with a P&L
\* and one without
C15_Witness ==
    /\ result.kind = "biweekly"
    /\ \E i, j \in DOMAIN result.value :
           /\ result.value[i].Client_Capital = 0
           /\ result.value[i].Total_PL # 0
           /\ result.value[i].Return_Pct = 0
           /\ result.value[j].Client_Capital = 0
           /\ result.value[j].Total_PL = 0
           /\ result.value[j].Return_Pct = 0

\* a capital flow with a period of denominator 0 and a P&L
C15_FlowReached ==
    /\ IsFlow
    /\ \E i \in DOMAIN result.value.monthly_breakdown :
           PeriodCapital(result.value.monthly_breakdown[i].period) = 0
    /\ \E t \in Range(trades) : t.profit_loss # 0

\* C16 (simple-sum cumulative return): in the monthly and in the biweekly
\* aggregate the cumulative return of period k is the plain sum of return_pct
\* over periods 1..k, and the cumulative_return of get_strategy_summary for a
\* client is the last cumulative value of that client's monthly aggregate.
C16_SimpleSumCumulative ==
    /\ IsReturns =>
           \A k \in DOMAIN result.value :
               result.value[k].Cumulative_Return
                   = result.value[k].Return_Pct
                     + (IF k = 1 THEN 0
                        ELSE result.value[k - 1].Cumulative_Return)
    /\ (result.kind = "summary" /\ ~result.value.empty) =>
           LET monthly == get_monthly_strategy_returns(result.client_id)
           IN  /\ monthly # <<>>
               /\ result.value.cumulative_return
                      = Last(monthly).Cumulative_Return

\* the label of month M as the monthly aggregate prints it
MonthLabel(M) == [text |-> "month", first |-> MonthStart(M)]

RECURSIVE StartingCapitalOver(_)
\* sum of starting_capital over the clients of S that are in the table
StartingCapitalOver(S) ==
    IF S = {} THEN 0
    ELSE LET c == CHOOSE x \in S : TRUE
         IN  (IF c \in DOMAIN clients THEN clients[c].starting_capital ELSE 0)
             + StartingCapitalOver(S \ {c})

RECURSIVE NetThrough(_, _)
\* contributions minus withdrawals of the first n movements that are dated in
\* month M or earlier
NetThrough(n, M) ==
    IF n = 0 THEN 0
    ELSE NetThrough(n - 1, M)
         + (IF MonthOf(movements[n].date) > M THEN 0
            ELSE IF movements[n].type = "contribution" THEN movements[n].amount
            ELSE 0 - movements[n].amount)

\* the pooled capital of month M: every client's starting capital plus the net
\* of every client's movements dated in M or earlier
PooledCapital(M) == StartingCapitalOver(ClientIds) + NetThrough(Len(movements), M)

HasOverride(M) == \E r \in Range(monthly_capital) : MonthOf(r.month) = M

\* the rows of month M in a monthly aggregate have the denominator capital
\* and a return_pct that is P&L / capital * 100 to the rounding
MonthHasDenominator(monthly, M, capital) ==
    \A i \in DOMAIN monthly :
        MonthOf(monthly[i].Period.first) = M =>
            /\ monthly[i].Client_Capital = capital
            /\ capital > 0 =>
                   2 * Abs(monthly[i].Return_Pct * capital
                           - monthly[i].Total_PL * 10000) <= capital

\* the denominator the claim gives month M: the override's amount when the
\* table has an entry for M, the pooled default otherwise
ClaimedDenominator(M) ==
    IF HasOverride(M)
    THEN (CHOOSE r \in Range(monthly_capital) : MonthOf(r.month) = M).total_capital
    ELSE PooledCapital(M)

\* C17 (override precedence and revert): set_monthly_capital(M, v) makes the
\* denominator of month M equal to v, so that return_pct of M is P&L / v * 100,
\* and leaves the trade store unchanged; delete_monthly_capital(M) brings the
\* denominator and return_pct of M back to the pooled default, which neither
\* call changes (clients and movements are left as they were).  Stated as:
\* in every state the denominator and return_pct of a month are those of its
\* entry when it has one and of the pooled default when it has none; set
\* leaves an entry (M, v), delete leaves none, and both leave trades, clients
\* and movements unchanged.
C17_OverridePrecedence ==
    /\ [](\A M \in OverrideMonths :
              /\ get_monthly_capital(MonthLabel(M)) = ClaimedDenominator(M)
              /\ \A c \in ClientIds \cup {NoClient} :
                     MonthHasDenominator(get_monthly_strategy_returns(c), M,
                                         ClaimedDenominator(M)))
    /\ [][/\ \A o \in OverrideInputs :
                  set_monthly_capital(o.month_year, o.capital_amount) =>
                      /\ UNCHANGED <<trades, clients, movements>>
                      /\ \E r \in Range(monthly_capital') :
                             /\ MonthOf(r.month) = o.month_year
                             /\ r.total_capital = o.capital_amount
           /\ \A M \in OverrideMonths :
                  delete_monthly_capital(M) =>
                      /\ UNCHANGED <<trades, clients, movements>>
                      /\ \A r \in Range(monthly_capital') :
                             MonthOf(r.month) # M]_vars

\* a monthly aggregate whose first month runs on an override of 20000 while
\* the pooled capital is 15000: return 5.00 % for a P&L of 1000
C17_Witness ==
    /\ result.kind = "monthly"
    /\ result.value # <<>>
    /\ HasOverride(0)
    /\ PooledCapital(0) = 15000
    /\ result.value[1].Client_Capital = 20000
    /\ result.value[1].Return_Pct = 500

\* C18 (at most one override per month): after any sequence of
\* set_monthly_capital and delete_monthly_capital calls the override table has
\* at most one entry per calendar month; after set_monthly_capital(M, v) the
\* entry of M holds v, after delete_monthly_capital(M) M has no entry, and
\* either call leaves the entries of the other months as they were.
C18_OneOverridePerMonth ==
    /\ [](\A i, j \in DOMAIN monthly_capital :
              i # j => MonthOf(monthly_capital[i].month)
                       # MonthOf(monthly_capital[j].month))
    /\ [][/\ \A o \in OverrideInputs :
                  set_monthly_capital(o.month_year, o.capital_amount) =>
                      /\ \E r \in Range(monthly_capital') :
                             MonthOf(r.month) = o.month_year
                      /\ \A r \in Range(monthly_capital') :
                             MonthOf(r.month) = o.month_year
                                 => r.total_capital = o.capital_amount
                      /\ {r \in Range(monthly_capital') :
                              MonthOf(r.month) # o.month_year}
                         = {r \in Range(monthly_capital) :
                              MonthOf(r.month) # o.month_year}
           /\ \A M \in OverrideMonths :
                  delete_monthly_capital(M) =>
                      Range(monthly_capital')
                          = {r \in Range(monthly_capital) : MonthOf(r.month) # M}]_vars

\* a table with an entry for each of two months, the first month's entered
\* last
C18_Witness ==
    /\ Len(monthly_capital) = 2
    /\ MonthOf(monthly_capital[1].month) = 1
    /\ MonthOf(monthly_capital[2].month) = 0
    /\ monthly_capital[2].total_capital = 5000

\* C19 (pooled default denominator): for a month M without an override,
\* get_monthly_capital(M) is the sum of starting_capital over all clients,
\* active or not, plus contributions minus withdrawals of all clients'
\* movements dated in M or earlier; the denominators of the monthly aggregate
\* are these, whichever client is viewed.
C19_PooledDefault ==
    /\ \A M \in OverrideMonths :
           ~HasOverride(M) => get_monthly_capital(MonthLabel(M)) = PooledCapital(M)
    /\ result.kind = "monthly" =>
           \A i \in DOMAIN result.value :
               LET M == MonthOf(result.value[i].Period.first)
               IN  ~HasOverride(M) =>
                       result.value[i].Client_Capital = PooledCapital(M)

\* the aggregate viewed by c1 while the inactive client c2 has contributed in
\* the second month: 15000 for the first month, 17000 for the second
C19_Witness ==
    /\ result.kind = "monthly"
    /\ result.client_id = "c1"
    /\ monthly_capital = <<>>
    /\ Len(result.value) = 2
    /\ "c2" \in DOMAIN clients
    /\ ~clients["c2"].active
    /\ Len(movements) = 1
    /\ result.value[1].Client_Capital = 15000
    /\ result.value[2].Client_Capital = 17000

\* the overrides of the calendar months that the week starting on day first
\* overlaps
OverridesOverlapping(first) ==
    {r \in Range(monthly_capital) :
        \E d \in first..(first + 6) : MonthOf(d) = MonthOf(r.month)}

\* C20 (override applies to biweekly lookups): when an override exists for
\* calendar month M, get_biweekly_capital returns that override's
\* total_capital for every biweekly period that overlaps M.
C20_OverrideBiweekly ==
    result.kind = "biweekly" =>
        \A i \in DOMAIN result.value :
            LET overlapping == OverridesOverlapping(result.value[i].Period.first)
            IN  overlapping # {} =>
                    result.value[i].Client_Capital
                        \in {r.total_capital : r \in overlapping}

(***************************************************************************)
(* C21  Delete cascade.  After delete_client(c) the client table has no    *)
(* row for c, the movement log has no movement of c, no trade tagged with  *)
(* c remains and the configuration has no section for c; the rows,         *)
(* movements, trades and sections of every other client are unchanged.     *)
(***************************************************************************)
\* the rows of a table that belong to client d
OwnedBy(rows, d) == SelectSeq(rows, LAMBDA r : r.client_id = d)

C21_DeleteCascade ==
    [][\A c \in ClientIds :
          delete_client(c) =>
              /\ c \notin DOMAIN clients'
              /\ OwnedBy(movements', c) = <<>>
              /\ OwnedBy(trades', c) = <<>>
              /\ c \notin DOMAIN config'.clients
              /\ \A d \in ClientIds \ {c} :
                    /\ d \in DOMAIN clients' <=> d \in DOMAIN clients
                    /\ d \in DOMAIN clients => clients'[d] = clients[d]
                    /\ OwnedBy(movements', d) = OwnedBy(movements, d)
                    /\ OwnedBy(trades', d) = OwnedBy(trades, d)
                    /\ d \in DOMAIN config'.clients <=> d \in DOMAIN config.clients
                    /\ d \in DOMAIN config.clients =>
                           config'.clients[d] = config.clients[d]]_vars

\* c1 has just been deleted while it had a movement, a trade and a section,
\* and c2 still has its row, its movement, its trade and its section
C21_Witness ==
    /\ result = Done
    /\ "c1" \notin DOMAIN clients
    /\ "c2" \in DOMAIN clients
    /\ "c2" \in DOMAIN config.clients
    /\ "c1" \notin DOMAIN config.clients
    /\ Len(movements) = 1 /\ movements[1].client_id = "c2" /\ movements[1].movement_id = 2
    /\ Len(trades) = 1 /\ trades[1].client_id = "c2" /\ trades[1].trade_id = 2

(***************************************************************************)
(* C22  Append-only movement log.  add_capital_movement appends exactly    *)
(* one movement, the one it was given, and leaves every recorded movement  *)
(* as it was; an import, a capital override set or deleted, a              *)
(* configuration update, a client edit and a capital-flow query leave the  *)
(* log as it was; the log changes only by an append or by delete_client.   *)
(***************************************************************************)
AppendsOne(client_id) ==
    /\ Len(movements') = Len(movements) + 1
    /\ SubSeq(movements', 1, Len(movements)) = movements
    /\ Last(movements').client_id = client_id
    /\ Last(movements').type = "contribution"
    /\ Last(movements').amount = 2000
    /\ Last(movements').date = 32

C22_AppendOnlyLog ==
    [][/\ \A c \in ClientIds :
              add_capital_movement(c, "contribution", 2000, 32) => AppendsOne(c)
       /\ (UploadBatch \/ SetOverride \/ DeleteOverride \/ UpdateClientConfig
           \/ EditClient \/ QueryLedger) => UNCHANGED movements
       /\ movements' # movements =>
              \/ \E c \in ClientIds : AppendsOne(c)
              \/ \E c \in ClientIds : delete_client(c)]_vars

\* a second movement has just been appended after the first
C22_Witness ==
    /\ result = Done
    /\ Len(movements) = 2
    /\ movements[1].movement_id = 1
    /\ movements[2].movement_id = 2
    /\ movements[1].client_id = "c1"
    /\ movements[2].client_id = "c2"
    /\ trades # <<>>
    /\ monthly_capital # <<>>
    /\ "c1" \in DOMAIN config.clients
    /\ clients["c1"].starting_capital = 20000

(***************************************************************************)
(* C23  Investment-start filter.  When the aggregator is called for a      *)
(* client with an investment start date, there is one record per period    *)
(* holding a trade sold on or after that date, and every figure of a       *)
(* record (total P&L, trade count, win count, win rate, average winning    *)
(* and average losing return-%) is computed from those trades only.        *)
(***************************************************************************)
\* the trades sold on or after the start date of client c
SoldSinceStart(c) ==
    SelectSeq(trades, LAMBDA t : t.sell_date >= clients[c].investment_start_date)

FiguresFrom(r, rows, period) ==
    /\ r.Total_PL = SumPL(rows)
    /\ r.Total_Trades = Len(rows)
    /\ r.Winning_Trades = Len(SelectSeq(rows, LAMBDA t : t.win_loss = "Win"))
    /\ r.Win_Rate = RoundDiv(r.Winning_Trades * 10000, Len(rows))
    /\ r.Avg_Win_Pct = AvgPct(rows, period, "Win")
    /\ r.Avg_Loss_Pct = AvgPct(rows, period, "Loss")

C23_StartFilter ==
    (/\ result.kind \in {"monthly", "biweekly"}
     /\ result.client_id \in DOMAIN clients) =>
        LET freq == IF result.kind = "monthly" THEN "M" ELSE "2W-SUN"
            kept == SoldSinceStart(result.client_id)
            periods == {to_period(t.sell_date, freq) : t \in Range(kept)}
        IN  /\ {r.Period : r \in Range(result.value)} = {PeriodStr(p) : p \in periods}
            /\ Len(result.value) = Cardinality(periods)
            /\ \A r \in Range(result.value) : \A p \in periods :
                   r.Period = PeriodStr(p) =>
                       FiguresFrom(r, SelectSeq(kept, LAMBDA t : to_period(t.sell_date, freq) = p), p)

(***************************************************************************)
(* C24  Ascending walk.  Whatever the order in which the trades were       *)
(* imported, the periods of the monthly and of the biweekly breakdown of a *)
(* capital flow are in strictly ascending order of their first day, so     *)
(* that no period appears twice.                                           *)
(***************************************************************************)
Ascending(b) ==
    \A i \in 1..Len(b) - 1 : b[i].period.first < b[i + 1].period.first

C24_AscendingWalk ==
    IsFlow => \A b \in BothBreakdowns : Ascending(b)

\* a flow of two months and two weeks computed over trades stored with the
\* later sale first
C24_Witness ==
    /\ IsFlow
    /\ Len(result.value.monthly_breakdown) = 2
    /\ Len(result.value.biweekly_breakdown) = 2
    /\ Len(trades) = 2
    /\ trades[1].sell_date > trades[2].sell_date

(***************************************************************************)
(* C25  Benchmark degrades gracefully.  When the benchmark fetch fails or  *)
(* returns nothing the benchmark is empty and the page still has its       *)
(* table; under every outcome of the fetch the table has one row per       *)
(* month of the strategy with the strategy's own return-% and cumulative   *)
(* return; a month missing from the benchmark has no benchmark row and     *)
(* shows a benchmark return of 0 in the table only.                        *)
(***************************************************************************)
IsAnalysis == result.kind = "analysis"

C25_BenchmarkDegrades ==
    IsAnalysis =>
        LET monthly_returns == get_monthly_strategy_returns(NoClient)
            table == result.table
            months == {b.Month : b \in Range(result.sp500_returns)}
        IN  /\ result.fetch.kind # "history" => result.sp500_returns = <<>>
            /\ Len(table) = Len(monthly_returns)
            /\ \A i \in 1..Len(table) :
                   /\ table[i].Month = monthly_returns[i].Period
                   /\ table[i].Return_Pct = monthly_returns[i].Return_Pct
                   /\ table[i].Cumulative_Return = monthly_returns[i].Cumulative_Return
                   /\ (result.sp500_returns # <<>> /\ table[i].Month \notin months) =>
                          table[i].SP500_Return_Pct = 0
            /\ \A b \in Range(result.sp500_returns) :
                   \E i \in 2..Len(result.fetch.closes) :
                       b.Month = PeriodStr([freq |-> "M",
                                            ordinal |-> result.fetch.first_month + i - 1])

\* a table of two months under a failed fetch
C25_Witness ==
    /\ IsAnalysis
    /\ result.fetch.kind = "Exception"
    /\ Len(result.table) = 2
    /\ result.table[1].Return_Pct # 0
    /\ result.table[2].Cumulative_Return # result.table[2].Return_Pct

\* a table of two months whose second month is missing from the benchmark
C25_ZeroFilled ==
    /\ IsAnalysis
    /\ Len(result.sp500_returns) = 1
    /\ Len(result.table) = 2
    /\ result.table[1].SP500_Return_Pct = 1000
    /\ result.table[2].SP500_Return_Pct = 0
    /\ result.table[2].Return_Pct # 0

(***************************************************************************)
(* C26  Edits survive refresh.  A refresh_data that follows a successful   *)
(* update_client(c, ...) leaves the row of c with the edited               *)
(* starting_capital, investment_start_date and active flag.                *)
(***************************************************************************)
C26_EditsSurviveRefresh ==
    [][(/\ result.kind = "update_client"
        /\ result.ok
        /\ refresh_data) =>
           /\ result.client_id \in DOMAIN clients'
           /\ clients'[result.client_id] = clients[result.client_id]]_vars

(***************************************************************************)
(* C27  Movement conservation.  When the return-% of every period of a     *)
(* capital flow is 0, its current_capital is starting_capital plus the     *)
(* client's contributions minus the client's withdrawals, whichever        *)
(* periods the movements are dated in.                                     *)
(***************************************************************************)
AllReturnsZero ==
    \A b \in BothBreakdowns : \A i \in 1..Len(b) : b[i].return_pct = 0

C27_MovementConservation ==
    (IsFlow /\ AllReturnsZero) =>
        result.value.current_capital =
            result.value.starting_capital + result.value.total_contributions
            - result.value.total_withdrawals

(***************************************************************************)
(* C28  Unique identifiers.  No two stored trades have the same trade_id   *)
(* and no two recorded movements have the same movement_id.                *)
(***************************************************************************)
C28_UniqueTradeIds ==
    \A i, j \in 1..Len(trades) : trades[i].trade_id = trades[j].trade_id => i = j

C28_UniqueMovementIds ==
    \A i, j \in 1..Len(movements) :
        movements[i].movement_id = movements[j].movement_id => i = j

C28_UniqueIdentifiers == C28_UniqueTradeIds /\ C28_UniqueMovementIds

(***************************************************************************)
(* C29  Revoked users lose access.  A session that is_authenticated or     *)
(* has_role accepts belongs to a user who exists and is active, and a      *)
(* login that returns a session is the login of such a user: once          *)
(* delete_user(u) or update_user(u, active=False) has run, the earlier     *)
(* sessions of u are refused and u cannot log in.                          *)
(***************************************************************************)
\* the last call was a session check that accepted the session
Accepted ==
    /\ result.kind \in {"is_authenticated", "has_role"}
    /\ result.value

Entitled(u) == u \in DOMAIN users /\ users[u].active

C29_RevokedLoseAccess ==
    /\ Accepted => Entitled(sessions[result.session_id].username)
    /\ (result.kind = "login" /\ result.session_id # NoSession) =>
           Entitled(result.username)

\* the second half alone: no session is returned to a missing or inactive
\* user
C29_RevokedCannotLogin ==
    (result.kind = "login" /\ result.session_id # NoSession) =>
        Entitled(result.username)

\* a login of c1 refused although the password is right
C29_LoginRefused ==
    /\ result.kind = "login"
    /\ result.username = "c1"
    /\ result.session_id = NoSession
    /\ "c1" \in DOMAIN users
    /\ ~users["c1"].active
    /\ \E s \in DOMAIN sessions : sessions[s].username = "c1"

(***************************************************************************)
(* C30  Session lifetime and privilege.  A session comes into being only   *)
(* by a login of an active user with that user's password; a session      *)
(* older than 24 hours is not accepted by is_authenticated or has_role;    *)
(* a session that was logged out is not accepted; a session whose role is  *)
(* client never satisfies has_role(s, 'admin').                            *)
(***************************************************************************)
CreatedByLogin ==
    \A s \in DOMAIN sessions' \ DOMAIN sessions :
        \E u \in DOMAIN users, password \in Passwords :
            /\ login(u, password)
            /\ users[u].active
            /\ users[u].password_hash = hash_password(password)
            /\ result'.session_id = s

C30_OnlyByLogin == [][CreatedByLogin]_vars

C30_LoggedOutRefused ==
    [][\A s \in SessionIds : logout(s) => ~is_authenticated(s)']_vars

C30_NotOlderThanADay ==
    Accepted => now - sessions[result.session_id].created_at <= SessionHours

C30_ClientIsNoAdmin ==
    (/\ result.kind = "has_role"
     /\ result.required_role = "admin"
     /\ result.value) => sessions[result.session_id].role = "admin"

C30_SessionLifetime ==
    /\ [](C30_NotOlderThanADay /\ C30_ClientIsNoAdmin)
    /\ C30_OnlyByLogin
    /\ C30_LoggedOutRefused

\* a client's session refused as admin and accepted as client
C30_ClientRefusedAsAdmin ==
    /\ result.kind = "has_role"
    /\ result.required_role = "admin"
    /\ ~result.value
    /\ result.session_id \in DOMAIN sessions
    /\ sessions[result.session_id].role = "client"

TypeOK ==
    /\ Len(trades) <= MaxTrades
    /\ Len(movements) <= MaxMovements
    /\ DOMAIN clients \subseteq ClientIds

====
